---- MODULE Spec2Model ----
(***************************************************************************)
(* Model of the ESP32 angle appliance: reader.py (MPU6050 driver, vector   *)
(* helpers, _safe_read, AngleTracker) and main.py (DNS catch-all, HTTP     *)
(* connection handler, periodic sampler) under uasyncio's cooperative      *)
(* scheduling.                                                             *)
(*                                                                         *)
(* Numbers.  Accelerometer samples are vectors of whole g.  A vector       *)
(* [x, y, z, d] stands for (x, y, z) / sqrt(d), which represents every     *)
(* normalised vector exactly.  Intermediate floats carry the IEEE sign of  *)
(* zero ([n, neg]), because atan2 tells -0.0 from +0.0.  Angles are floats *)
(* in hundredths of a degree, with the sign of what float rounding leaves     *)
(* of an angle that is 0 in exact arithmetic.                                *)
(***************************************************************************)
EXTENDS Integers, Sequences, FiniteSets, TLC

VARIABLES
    tracker,    \* the AngleTracker object: g_ref, last_delta, axis, angle_mode
    call,       \* per caller: the frame of its tracker call in progress
    running,    \* the task that holds the interpreter ("none": the scheduler)
    dns,        \* the DNS task: where it is suspended or running
    inbox,      \* datagrams queued on the UDP socket, oldest first
    received,   \* history: what each recvfrom returned
    sent,       \* history: the packets sendto put on the wire
    conn,       \* per connection: the handle_client task's locals and history
    index_html, \* the global _INDEX_HTML
    index_file  \* the file index.html on the device, None when missing

trackerVars == <<tracker, call>>
dnsVars == <<dns, inbox, received, sent>>
httpVars == <<conn, index_html, index_file>>
vars == <<tracker, call, running, dns, inbox, received, sent, conn, index_html,
          index_file>>

----------------------------------------------------------------------------
(* Values *)

\* An optional value: None, or Some(v).  A call's outcome: Raised (the exception
\* the call raises; the bus raises OSError only) or Returned(v).
None == <<>>
Some(v) == <<v>>
Raised == <<>>
Returned(v) == <<v>>

\* A float: n is its value (in the unit of the vector it belongs to), neg its
\* sign bit, which matters only when n = 0.
Fl(n) == [n |-> n, neg |-> n < 0]

FNeg(a) == [n |-> 0 - a.n, neg |-> ~a.neg]

FMul(a, b) == [n |-> a.n * b.n, neg |-> (a.neg /\ ~b.neg) \/ (~a.neg /\ b.neg)]

\* IEEE addition, round to nearest: x + (-x) is +0.0, (-0.0) + (-0.0) is -0.0.
FAdd(a, b) ==
    LET n == a.n + b.n
    IN  IF n # 0 THEN Fl(n)
        ELSE IF a.n = 0 /\ b.n = 0 THEN [n |-> 0, neg |-> a.neg /\ b.neg]
        ELSE [n |-> 0, neg |-> FALSE]

FSub(a, b) == FAdd(a, FNeg(b))

Vec(x, y, z) == [x |-> Fl(x), y |-> Fl(y), z |-> Fl(z), d |-> 1]

\* The samples the accelerometer delivers (ax, ay, az in quarters of g): flat,
\* tilted by 45 and 90 degrees about Y, upside down, tilted about X, tilted
\* back, the all-zero sample of a garbled read, and a tilt whose x and z differ
\* (0.75 g, 0, 1.75 g).
Samples ==
    { Vec(0, 0, 1), Vec(1, 0, 1), Vec(1, 0, 0), Vec(0, 0, -1),
      Vec(0, 1, 1), Vec(-1, 0, 1), Vec(0, 0, 0), Vec(3, 0, 7) }

\* What one call of MPU6050.get_accel_data does: a sample, or OSError from the bus.
get_accel_data == {Raised} \cup {Returned(g) : g \in Samples}

----------------------------------------------------------------------------
(* Vector helpers *)

_vec_norm(v) ==
    LET n2 == v.x.n * v.x.n + v.y.n * v.y.n + v.z.n * v.z.n
    IN  IF n2 = 0 THEN Vec(0, 0, 0)
        ELSE [x |-> Fl(v.x.n), y |-> Fl(v.y.n), z |-> Fl(v.z.n), d |-> n2]

\* A scalar [n, neg, d] stands for n / sqrt(d).
_vec_dot(a, b) ==
    LET f == FAdd(FAdd(FMul(a.x, b.x), FMul(a.y, b.y)), FMul(a.z, b.z))
    IN  [n |-> f.n, neg |-> f.neg, d |-> a.d * b.d]

_vec_cross(a, b) ==
    [x |-> FSub(FMul(a.y, b.z), FMul(a.z, b.y)),
     y |-> FSub(FMul(a.z, b.x), FMul(a.x, b.z)),
     z |-> FSub(FMul(a.x, b.y), FMul(a.y, b.x)),
     d |-> a.d * b.d]

Abs(i) == IF i < 0 THEN 0 - i ELSE i

\* atan(a / b) in hundredths of a degree, 0 <= a <= b, b > 0.
AtanOctant(a, b) ==
    CASE a = 0 -> 0
      [] a = b -> 4500
      [] a = 1 /\ b = 2 -> 2657
      [] a = 1 /\ b = 3 -> 1843
      [] a = 2 /\ b = 3 -> 3369
      [] a = 3 /\ b = 7 -> 2320
      [] a = 4 /\ b = 10 -> 2180

\* atan(a / b) for a, b >= 0, not both 0.
AtanQuadrant(a, b) == IF a <= b THEN AtanOctant(a, b) ELSE 9000 - AtanOctant(b, a)

\* An angle of n hundredths of a degree.  ulps is the sign of the angle when
\* it is a few units in the last place away from 0: 0 when it is 0.0 or -0.0.
Deg(n) == [n |-> n, neg |-> n < 0, ulps |-> 0]

\* math.degrees(math.atan2(s, c)) for two scalars of one unit, signed zeros
\* included: atan2(+-0, -0) is +-pi, atan2(+-0, +0) is +-0.
atan2_degrees(s, c) ==
    CASE s.d = c.d ->
        IF s.n = 0
        THEN IF c.n > 0 \/ (c.n = 0 /\ ~c.neg)
             THEN [n |-> 0, neg |-> s.neg, ulps |-> 0]
             ELSE IF s.neg THEN Deg(-18000) ELSE Deg(18000)
        ELSE IF c.n > 0
             THEN Deg((IF s.n > 0 THEN 1 ELSE -1) * AtanQuadrant(Abs(s.n), c.n))
             ELSE IF c.n = 0
                  THEN (IF s.n > 0 THEN Deg(9000) ELSE Deg(-9000))
                  ELSE Deg((IF s.n > 0 THEN 1 ELSE -1)
                           * (18000 - AtanQuadrant(Abs(s.n), Abs(c.n))))

\* The two components of v across the axis are both non-zero and of different
\* magnitude: the products of _vec_cross then round differently.
Skewed(v, axis_unit) ==
    IF axis_unit.x.n # 0
    THEN v.y.n # 0 /\ v.z.n # 0 /\ Abs(v.y.n) # Abs(v.z.n)
    ELSE v.x.n # 0 /\ v.z.n # 0 /\ Abs(v.x.n) # Abs(v.z.n)

\* What the float arithmetic of _vec_norm and _vec_cross leaves of s when v1
\* has the direction of v0, by float width.  v0 is a stored unit vector:
\* normalising it again gives v0 back only up to rounding, s is then a few
\* ulps below 0 with 64-bit floats and 0 with 32-bit floats for the skewed
\* sample; it is 0 at any width when the cross products cancel term by term.
Rounding(v0, v1, axis_unit) ==
    LET v0u == _vec_norm(v0)
        v1u == _vec_norm(v1)
        s == _vec_dot(axis_unit, _vec_cross(v0u, v1u))
        c == _vec_dot(v0u, v1u)
    IN  IF s.n = 0 /\ c.n > 0 /\ Skewed(v0u, axis_unit) /\ Skewed(v1u, axis_unit)
        THEN {-1, 0}
        ELSE {0}

\* An angle computed with the arguments of atan2 exchanged.
_signed_angle_atan2_swapped(v0, v1, axis_unit, ulps) ==
    LET v0u == _vec_norm(v0)
        v1u == _vec_norm(v1)
        cross == _vec_cross(v0u, v1u)
        s == _vec_dot(axis_unit, cross)
        c == _vec_dot(v0u, v1u)
        ang == atan2_degrees(c, s)
    IN  IF ang.n = 18000 THEN Deg(-18000) ELSE ang

\* ulps: the rounding of this evaluation, one of Rounding(v0, v1, axis_unit).
_signed_angle_about_axis(v0, v1, axis_unit, ulps) ==
    LET v0u == _vec_norm(v0)
        v1u == _vec_norm(v1)
        cross == _vec_cross(v0u, v1u)
        s == _vec_dot(axis_unit, cross)
        c == _vec_dot(v0u, v1u)
        ang == IF ulps = 0 THEN atan2_degrees(s, c)
               ELSE [n |-> 0, neg |-> ulps < 0, ulps |-> ulps]
    IN  IF ang.n = 18000 THEN Deg(-18000) ELSE ang

----------------------------------------------------------------------------
(* AngleTracker *)

\* _safe_read's default retries.
retries == 3

\* str.upper on the mode names callers pass; angle_mode or "PITCH" maps None
\* and "" to "PITCH" first.
ModeInputs == {"PITCH", "ROLL", "pitch", "roll", "Roll", "yaw", ""}

Upper(str) ==
    CASE str \in {"ROLL", "roll", "Roll"} -> "ROLL"
      [] str \in {"PITCH", "pitch"} -> "PITCH"
      [] str = "yaw" -> "YAW"
      [] str = "" -> ""

\* A mode change that also forgets the last delta.
_set_axis_resets_delta(self, angle_mode) ==
    LET mode == Upper(IF angle_mode = "" THEN "PITCH" ELSE angle_mode)
    IN  IF mode = "ROLL"
        THEN [self EXCEPT !.axis = _vec_norm(Vec(1, 0, 0)), !.angle_mode = "ROLL",
                          !.last_delta = Deg(0)]
        ELSE [self EXCEPT !.axis = _vec_norm(Vec(0, 1, 0)), !.angle_mode = "PITCH",
                          !.last_delta = Deg(0)]

_set_axis(self, angle_mode) ==
    LET mode == Upper(IF angle_mode = "" THEN "PITCH" ELSE angle_mode)
    IN  IF mode = "ROLL"
        THEN [self EXCEPT !.axis = _vec_norm(Vec(1, 0, 0)), !.angle_mode = "ROLL"]
        ELSE [self EXCEPT !.axis = _vec_norm(Vec(0, 1, 0)), !.angle_mode = "PITCH"]

\* AngleTracker.__init__
AngleTrackerInit(angle_mode) ==
    _set_axis([g_ref |-> Vec(0, 0, 1), last_delta |-> Deg(0),
               axis |-> Vec(0, 1, 0), angle_mode |-> "PITCH"], angle_mode)

\* A recalibrate that resets last_delta before it looks at the read's result.
recalibrate_store_reset_first(self, g) ==
    IF g = None
    THEN [self |-> [self EXCEPT !.last_delta = Deg(0)], ret |-> FALSE]
    ELSE [self |-> [self EXCEPT !.g_ref = _vec_norm(g[1]), !.last_delta = Deg(0)],
          ret |-> TRUE]

\* recalibrate, after _safe_read has returned g: the new object and the result.
recalibrate_store(self, g) ==
    IF g = None
    THEN [self |-> self, ret |-> FALSE]
    ELSE [self |-> [self EXCEPT !.g_ref = _vec_norm(g[1]), !.last_delta = Deg(0)],
          ret |-> TRUE]

\* A get_delta that stores what it returns on failure too.
get_delta_store_always(self, g_now, ulps) ==
    IF g_now = None
    THEN [self |-> [self EXCEPT !.last_delta = Deg(0)], ret |-> None]
    ELSE LET d == _signed_angle_about_axis(self.g_ref, g_now[1], self.axis, ulps)
         IN  [self |-> [self EXCEPT !.last_delta = d], ret |-> Some(d)]

\* get_delta, after _safe_read has returned g_now; ulps is the rounding of
\* the angle's evaluation.
get_delta_store(self, g_now, ulps) ==
    IF g_now = None
    THEN [self |-> self, ret |-> None]
    ELSE LET d == _signed_angle_about_axis(self.g_ref, g_now[1], self.axis, ulps)
         IN  [self |-> [self EXCEPT !.last_delta = d], ret |-> Some(d)]

get_last_delta(self) == self.last_delta

\* One pass of _safe_read's loop body, given what read_fn does: the frame after
\* "return read_fn()", or after "except OSError" caught it.
safe_read_attempt(f, outcome) ==
    IF outcome # Raised
    THEN [f EXCEPT !.pc = "got", !.g = Some(outcome[1]),
                   !.reads = Append(@, outcome)]
    ELSE [f EXCEPT !.pc = "backoff", !.reads = Append(@, outcome)]

\* A loop that runs once more than range(retries).
safe_read_next_off_by_one(f) ==
    IF f.tries < retries
    THEN [f EXCEPT !.pc = "read", !.tries = @ + 1]
    ELSE [f EXCEPT !.pc = "got", !.tries = @ + 1, !.g = None]

\* After utime.sleep_ms(delay_ms): the next pass, or "return None" when
\* range(retries) is used up.
safe_read_next(f) ==
    IF f.tries + 1 < retries
    THEN [f EXCEPT !.pc = "read", !.tries = @ + 1]
    ELSE [f EXCEPT !.pc = "got", !.tries = @ + 1, !.g = None]

\* The callers of the tracker: the connection handlers, the periodic sampler,
\* the module-level start-up code, and a direct user of the class.
Conns == {"c1", "c2"}
Callers == Conns \cup {"sampler", "main", "api"}

IdleFrame ==
    [op |-> "none", pc |-> "idle", tries |-> 0, g |-> None, ret |-> None,
     pre |-> None, reads |-> <<>>]

\* t, holding the interpreter, enters recalibrate().
EnterRecalibrate(t) ==
    /\ call' = [call EXCEPT ![t] =
                    [IdleFrame EXCEPT !.op = "recalibrate", !.pc = "settle",
                                      !.pre = Some(tracker)]]
    /\ running' = t

\* t, holding the interpreter, enters get_delta().
EnterGetDelta(t) ==
    /\ call' = [call EXCEPT ![t] =
                    [IdleFrame EXCEPT !.op = "get_delta", !.pc = "read",
                                      !.pre = Some(tracker)]]
    /\ running' = t

\* A settle delay that suspends the task (await asyncio.sleep_ms) and resumes
\* it later.
Settle_suspends(t) ==
    /\ call[t].pc = "settle"
    /\ running \in {t, "none"}
    /\ IF running = t
       THEN running' = "none" /\ call' = call
       ELSE running' = t /\ call' = [call EXCEPT ![t].pc = "read"]
    /\ UNCHANGED <<tracker, dnsVars, httpVars>>

\* utime.sleep_ms(self.calibration_delay_ms): the interpreter sleeps.
Settle(t) ==
    /\ running = t
    /\ call[t].pc = "settle"
    /\ call' = [call EXCEPT ![t].pc = "read"]
    /\ UNCHANGED <<tracker, running, dnsVars, httpVars>>

\* One bus read attempt of _safe_read.
SafeReadAttempt(t, bus) ==
    /\ running = t
    /\ call[t].pc = "read"
    /\ \E outcome \in bus :
           call' = [call EXCEPT ![t] = safe_read_attempt(call[t], outcome)]
    /\ UNCHANGED <<tracker, running, dnsVars, httpVars>>

\* utime.sleep_ms(delay_ms) after a failed attempt: the interpreter sleeps.
SafeReadBackoff(t) ==
    /\ running = t
    /\ call[t].pc = "backoff"
    /\ call' = [call EXCEPT ![t] = safe_read_next(call[t])]
    /\ UNCHANGED <<tracker, running, dnsVars, httpVars>>

\* recalibrate() from "if g is None" to its return.
RecalibrateStore(t) ==
    /\ running = t
    /\ call[t].pc = "got"
    /\ call[t].op = "recalibrate"
    /\ LET r == recalibrate_store(tracker, call[t].g)
       IN  /\ tracker' = r.self
           /\ call' = [call EXCEPT ![t].pc = "ret", ![t].ret = Some(r.ret)]
    /\ UNCHANGED <<running, dnsVars, httpVars>>

\* get_delta() from "if g_now is None" to its return.
GetDeltaStore(t) ==
    /\ running = t
    /\ call[t].pc = "got"
    /\ call[t].op = "get_delta"
    /\ \E ulps \in IF call[t].g = None THEN {0}
                   ELSE Rounding(tracker.g_ref, call[t].g[1], tracker.axis) :
           LET r == get_delta_store(tracker, call[t].g, ulps)
           IN  /\ tracker' = r.self
               /\ call' = [call EXCEPT ![t].pc = "ret", ![t].ret = r.ret]
    /\ UNCHANGED <<running, dnsVars, httpVars>>

\* The steps inside a get_delta() call.
GetDeltaStep(t, bus) ==
    \/ SafeReadAttempt(t, bus)
    \/ SafeReadBackoff(t)
    \/ GetDeltaStore(t)

\* The steps inside a tracker call, whoever made it.
TrackerStep(t, bus) ==
    \/ Settle(t)
    \/ RecalibrateStore(t)
    \/ GetDeltaStep(t, bus)

----------------------------------------------------------------------------
(* Text.  A str or bytes value is the sequence of its characters; "0xFF" is a *)
(* byte that is not valid UTF-8.                                              *)

GET == <<"G", "E", "T">>
POST == <<"P", "O", "S", "T">>
HEAD == <<"H", "E", "A", "D">>
M_get == <<"g", "e", "t">>
HTTP11 == <<"H", "T", "T", "P", "/", "1", ".", "1">>
CRLF == <<"\r", "\n">>
P_generate_204 ==
    <<"/", "g", "e", "n", "e", "r", "a", "t", "e", "_", "2", "0", "4">>
P_gen_204 == <<"/", "g", "e", "n", "_", "2", "0", "4">>
P_hotspot_detect ==
    <<"/", "h", "o", "t", "s", "p", "o", "t", "-", "d", "e", "t", "e", "c",
      "t", ".", "h", "t", "m", "l">>
P_library_success ==
    <<"/", "l", "i", "b", "r", "a", "r", "y", "/", "t", "e", "s", "t", "/",
      "s", "u", "c", "c", "e", "s", "s", ".", "h", "t", "m", "l">>
P_connecttest ==
    <<"/", "c", "o", "n", "n", "e", "c", "t", "t", "e", "s", "t", ".", "t",
      "x", "t">>
P_ncsi == <<"/", "n", "c", "s", "i", ".", "t", "x", "t">>
P_root == <<"/">>
P_index_html == <<"/", "i", "n", "d", "e", "x", ".", "h", "t", "m", "l">>
P_angle == <<"/", "a", "n", "g", "l", "e">>
P_recalibrate ==
    <<"/", "r", "e", "c", "a", "l", "i", "b", "r", "a", "t", "e">>
S_connecttest_txt ==
    <<"c", "o", "n", "n", "e", "c", "t", "t", "e", "s", "t", ".", "t", "x",
      "t">>
S_content_length ==
    <<"c", "o", "n", "t", "e", "n", "t", "-", "l", "e", "n", "g", "t", "h",
      ":">>
S_host == <<"h", "o", "s", "t", ":">>
H_ContentLength2 ==
    <<"C", "o", "n", "t", "e", "n", "t", "-", "L", "e", "n", "g", "t", "h",
      ":", " ", "2", "\r", "\n">>
H_content_length_bad ==
    <<"c", "o", "n", "t", "e", "n", "t", "-", "l", "e", "n", "g", "t", "h",
      ":", " ", "t", "w", "o", "\r", "\n">>
H_ContentLengthNeg ==
    <<"C", "O", "N", "T", "E", "N", "T", "-", "L", "E", "N", "G", "T", "H",
      ":", "-", "1", "\r", "\n">>
H_Host ==
    <<"H", "o", "s", "t", ":", " ", "1", "9", "2", ".", "1", "6", "8", ".",
      "4", ".", "1", "\r", "\n">>
H_Accept ==
    <<"A", "c", "c", "e", "p", "t", ":", " ", "*", "/", "*", "\r", "\n">>
H_Undecodable == <<"X", ":", " ", "0xFF", "\r", "\n">>
H_BareLF == <<"\n">>
L_Undecodable ==
    <<"G", "E", "T", " ", "/", "a", "n", "g", "l", "e", "0xFF", " ", "H",
      "T", "T", "P", "/", "1", ".", "1", "\r", "\n">>
L_Blank == <<"\r", "\n">>
L_MethodOnly == <<"G", "E", "T", "\r", "\n">>

Whitespace == {" ", "\t", "\r", "\n"}

UpperCase ==
    <<"A", "B", "C", "D", "E", "F", "G", "H", "I", "J", "K", "L", "M", "N",
      "O", "P", "Q", "R", "S", "T", "U", "V", "W", "X", "Y", "Z">>
LowerCase ==
    <<"a", "b", "c", "d", "e", "f", "g", "h", "i", "j", "k", "l", "m", "n",
      "o", "p", "q", "r", "s", "t", "u", "v", "w", "x", "y", "z">>

LowerChar(ch) ==
    IF \E i \in 1..26 : UpperCase[i] = ch
    THEN LowerCase[CHOOSE i \in 1..26 : UpperCase[i] = ch]
    ELSE ch

\* str.lower
Lower(str) == [i \in 1..Len(str) |-> LowerChar(str[i])]

\* str.startswith, str.endswith
StartsWith(str, prefix) ==
    Len(str) >= Len(prefix) /\ SubSeq(str, 1, Len(prefix)) = prefix

EndsWith(str, suffix) ==
    /\ Len(str) >= Len(suffix)
    /\ SubSeq(str, Len(str) - Len(suffix) + 1, Len(str)) = suffix

RECURSIVE LStrip(_)
LStrip(str) ==
    IF str # <<>> /\ Head(str) \in Whitespace THEN LStrip(Tail(str)) ELSE str

RECURSIVE RStrip(_)
RStrip(str) ==
    IF str # <<>> /\ str[Len(str)] \in Whitespace
    THEN RStrip(SubSeq(str, 1, Len(str) - 1))
    ELSE str

\* str.strip()
Strip(str) == RStrip(LStrip(str))

RECURSIVE split_from(_, _)
split_from(str, word) ==
    IF str = <<>>
    THEN IF word = <<>> THEN <<>> ELSE <<word>>
    ELSE IF Head(str) \in Whitespace
         THEN (IF word = <<>> THEN <<>> ELSE <<word>>) \o split_from(Tail(str), <<>>)
         ELSE split_from(Tail(str), Append(word, Head(str)))

\* str.split(): the runs of characters that are not whitespace
split(str) == split_from(str, <<>>)

\* str.split(":", 1)[1] of a string that holds a colon
AfterColon(str) ==
    LET i == CHOOSE k \in 1..Len(str) :
                 str[k] = ":" /\ \A j \in 1..(k - 1) : str[j] # ":"
    IN  SubSeq(str, i + 1, Len(str))

Digits == <<"0", "1", "2", "3", "4", "5", "6", "7", "8", "9">>

IsDigit(ch) == \E i \in 1..10 : Digits[i] = ch

DigitValue(ch) == (CHOOSE i \in 1..10 : Digits[i] = ch) - 1

RECURSIVE digits_value(_, _)
digits_value(str, acc) ==
    IF str = <<>> THEN acc
    ELSE digits_value(Tail(str), acc * 10 + DigitValue(Head(str)))

\* int(str): Returned(n), or Raised for ValueError
py_int(str) ==
    LET txt == Strip(str)
        signed == txt # <<>> /\ Head(txt) \in {"+", "-"}
        body == IF signed THEN Tail(txt) ELSE txt
    IN  IF body = <<>> \/ \E i \in 1..Len(body) : ~IsDigit(body[i])
        THEN Raised
        ELSE Returned((IF signed /\ Head(txt) = "-" THEN -1 ELSE 1)
                      * digits_value(body, 0))

\* bytes.decode(): Raised for UnicodeError
decode(bytes) ==
    IF \E i \in 1..Len(bytes) : bytes[i] = "0xFF" THEN Raised ELSE Returned(bytes)

RECURSIVE int_str(_)
int_str(n) ==
    IF n < 10 THEN Digits[n + 1] ELSE int_str(n \div 10) \o Digits[(n % 10) + 1]

\* f"{d:+.2f}" of an angle in hundredths of a degree
format_angle(d) ==
    (IF d.neg THEN "-" ELSE "+") \o int_str(Abs(d.n) \div 100) \o "."
    \o int_str((Abs(d.n) % 100) \div 10) \o int_str(Abs(d.n) % 10)

\* A Python value passed as a response body.
PyStr(str) == [type |-> "str", str |-> str]
PyInt(n) == [type |-> "int", int |-> n]
PyNone == [type |-> "NoneType"]

\* "if not isinstance(body, str): body = str(body)"
py_str(body) ==
    CASE body.type = "str" -> body.str
      [] body.type = "int" ->
            IF body.int < 0 THEN "-" \o int_str(0 - body.int) ELSE int_str(body.int)
      [] body.type = "NoneType" -> "None"

----------------------------------------------------------------------------
(* HTTP server *)

ANGLE_MODE == "PITCH"
SSID == "ESP32-Angle"

CT_PLAIN == "text/plain; charset=utf-8"
CT_HTML == "text/html; charset=utf-8"

\* How many header lines a request carries before the line that ends them.
MaxHeaders == 2

ConnIds == Conns \cup {"api"}

\* index.html as the runs of text between and including its placeholders.
IndexFiles == {None, Some(<<>>), Some(<<"<b>", "{{MODE}}", "@", "{{SSID}}", "</b>">>)}

RECURSIVE Join(_)
Join(segments) ==
    IF segments = <<>> THEN "" ELSE Head(segments) \o Join(Tail(segments))

\* .replace("{{MODE}}", ANGLE_MODE).replace("{{SSID}}", SSID)
Replace(segments) ==
    [i \in 1..Len(segments) |->
        IF segments[i] = "{{MODE}}" THEN ANGLE_MODE
        ELSE IF segments[i] = "{{SSID}}" THEN SSID
        ELSE segments[i]]

\* load_index_html(): the global after the call, and the page returned.
load_index_html(cache, file) ==
    LET loaded == IF cache # None THEN cache
                  ELSE IF file = None THEN Some(<<"<h1>index.html missing</h1>">>)
                  ELSE file
    IN  [cache |-> loaded, page |-> Join(Replace(loaded[1]))]

reason(status) ==
    CASE status = 200 -> "OK"
      [] status = 204 -> "No Content"
      [] status = 404 -> "Not Found"
      [] status = 500 -> "Internal Server Error"
      [] OTHER -> "OK"

\* A connection's task: where it is (pc), the clause it is in (block), the
\* locals of handle_client and send_response, and its history: the awrite
\* calls (out), the aclose calls (closes), whether "except Exception" of the
\* handler caught something, and how the task ended.
FreshConn ==
    [pc |-> "readline_req", block |-> "try", method |-> <<>>, path |-> <<>>,
     content_length |-> 0, host_hdr |-> <<>>, nhdr |-> 0, d |-> None,
     ok |-> None, status |-> 0, ctype |-> "", body |-> "", out |-> <<>>,
     closes |-> <<>>, caught |-> FALSE, pending |-> FALSE, ended |-> "no"]

FreeConn == [FreshConn EXCEPT !.pc = "free"]

\* Where a task is not suspended at an await: it holds the interpreter.
InternalPcs == {"dispatch", "get_delta", "recalibrate"}

HttpIdle(files) ==
    /\ conn = [c \in ConnIds |-> FreeConn]
    /\ index_html = None
    /\ index_file \in files

\* send_response up to "await writer.awrite(hdr)".
send_response(f, status, ctype, body) ==
    [f EXCEPT !.pc = "awrite_hdr", !.status = status, !.ctype = ctype,
              !.body = py_str(body)]

\* A body test that forgets the status.
writes_body_any_status(status, body) == body # ""

\* "if body and status != 204"
writes_body(status, body) == body # "" /\ status # 204

\* The finally clause: "try: await writer.aclose()".
enter_finally(f) == [f EXCEPT !.pc = "aclose", !.block = "finally"]

\* A handler that closes the connection after the response only, not in a
\* finally clause.
on_exception_no_finally(f) ==
    CASE f.block = "try" ->
            send_response([f EXCEPT !.block = "except", !.caught = TRUE],
                          500, CT_PLAIN, PyStr("Server error"))
      [] f.block = "except" -> [f EXCEPT !.pc = "done", !.ended = "returned"]
      [] f.block = "finally" -> [f EXCEPT !.pc = "done", !.ended = "returned"]
      [] f.block = "direct" -> [f EXCEPT !.pc = "done", !.ended = "raised"]

\* A handler whose 500 response is not wrapped in try/except: its failure
\* leaves the except clause, the finally clause runs, the exception goes on.
on_exception_unguarded_500(f) ==
    CASE f.block = "try" ->
            send_response([f EXCEPT !.block = "except", !.caught = TRUE],
                          500, CT_PLAIN, PyStr("Server error"))
      [] f.block = "except" -> enter_finally([f EXCEPT !.pending = TRUE])
      [] f.block = "finally" ->
            [f EXCEPT !.pc = "done",
                      !.ended = IF f.pending THEN "raised" ELSE "returned"]
      [] f.block = "direct" -> [f EXCEPT !.pc = "done", !.ended = "raised"]

\* An exception is raised in the clause the task is in: "except Exception"
\* of the handler answers 500, the inner "except Exception: pass" clauses
\* swallow it; a direct caller of send_response gets it.
on_exception(f) ==
    CASE f.block = "try" ->
            send_response([f EXCEPT !.block = "except", !.caught = TRUE],
                          500, CT_PLAIN, PyStr("Server error"))
      [] f.block = "except" -> enter_finally(f)
      [] f.block = "finally" ->
            [f EXCEPT !.pc = "done",
                      !.ended = IF f.pending THEN "raised" ELSE "returned"]
      [] f.block = "direct" -> [f EXCEPT !.pc = "done", !.ended = "raised"]

\* send_response has returned.
on_sent(f) ==
    IF f.block = "direct"
    THEN [f EXCEPT !.pc = "done", !.ended = "returned"]
    ELSE enter_finally(f)

\* The request line: decode (or ""), split, method and path with defaults.
parse_request_line(f, req) ==
    LET line == IF decode(req) = Raised THEN <<>> ELSE decode(req)[1]
        parts == split(line)
    IN  [f EXCEPT !.method = IF Len(parts) >= 1 THEN parts[1] ELSE <<>>,
                  !.path = IF Len(parts) >= 2 THEN parts[2] ELSE P_root,
                  !.pc = "readline_hdr"]

\* A header line that does not end the headers.
header_line(f, h) ==
    IF decode(h) = Raised THEN on_exception(f)
    ELSE LET hl == Strip(decode(h)[1])
             n == IF StartsWith(Lower(hl), S_content_length)
                  THEN py_int(Strip(AfterColon(hl)))
                  ELSE Returned(f.content_length)
         IN  [f EXCEPT !.content_length = IF n = Raised THEN 0 ELSE n[1],
                       !.host_hdr = IF StartsWith(Lower(hl), S_host)
                                    THEN Strip(SubSeq(hl, 6, Len(hl)))
                                    ELSE @,
                       !.nhdr = @ + 1]

\* "if not h or h == b'\r\n': break", then "if content_length:"
headers_end(f) ==
    IF f.content_length # 0 THEN [f EXCEPT !.pc = "readexactly"]
    ELSE [f EXCEPT !.pc = "dispatch"]

\* A router that checks /recalibrate's path only.
route_recalibrate_any_method(method, path) ==
    IF method = GET /\ path \in {P_generate_204, P_gen_204} THEN "generate_204"
    ELSE IF method = GET /\ path \in {P_hotspot_detect, P_library_success}
    THEN "success"
    ELSE IF method = GET /\ path \in {P_connecttest, P_ncsi} THEN "ncsi"
    ELSE IF method = GET /\ (path = P_root \/ StartsWith(path, P_index_html))
    THEN "index"
    ELSE IF method = GET /\ path = P_angle THEN "angle"
    ELSE IF path = P_recalibrate THEN "recalibrate"
    ELSE "not_found"

\* The if/elif chain of handle_client: the branch taken.
route(method, path) ==
    IF method = GET /\ path \in {P_generate_204, P_gen_204} THEN "generate_204"
    ELSE IF method = GET /\ path \in {P_hotspot_detect, P_library_success}
    THEN "success"
    ELSE IF method = GET /\ path \in {P_connecttest, P_ncsi} THEN "ncsi"
    ELSE IF method = GET /\ (path = P_root \/ StartsWith(path, P_index_html))
    THEN "index"
    ELSE IF method = GET /\ path = P_angle THEN "angle"
    ELSE IF path = P_recalibrate /\ method \in {POST, GET} THEN "recalibrate"
    ELSE "not_found"

\* The send_response call of a branch that calls neither the tracker nor
\* load_index_html.
canned(f, branch) ==
    CASE branch = "generate_204" -> send_response(f, 204, CT_PLAIN, PyStr(""))
      [] branch = "success" -> send_response(f, 200, CT_HTML, PyStr("Success"))
      [] branch = "ncsi" ->
            send_response(f, 200, CT_PLAIN,
                          PyStr(IF EndsWith(f.path, S_connecttest_txt)
                                THEN "Microsoft Connect Test"
                                ELSE "Microsoft NCSI"))
      [] branch = "not_found" -> send_response(f, 404, CT_PLAIN, PyStr("Not found"))

\* The world a specification puts the server in: what readline returns for the
\* request line (reqs) and for a header line (hdrs), what stream I/O does
\* (io), what the bus does (bus).
IoOk == Returned(0)

\* After a step of task c: it holds the interpreter unless it is suspended at
\* an await or has ended.
Yields(c) == running' = IF conn'[c].pc \in InternalPcs THEN c ELSE "none"

\* start_server's callback: a connection is accepted and its task created.
Accept(c) ==
    /\ running = "none"
    /\ conn[c].pc \in {"free", "done"}
    /\ conn' = [conn EXCEPT ![c] = FreshConn]
    /\ UNCHANGED <<running, index_html, index_file, trackerVars, dnsVars>>

\* "req = await reader.readline()" completes: an exception, nothing (the peer
\* closed), or a line.
ReadRequestLine(c, W) ==
    /\ running = "none"
    /\ conn[c].pc = "readline_req"
    /\ \E r \in W.reqs :
           conn' = [conn EXCEPT ![c] =
                       IF r = Raised THEN on_exception(@)
                       ELSE IF r[1] = <<>> THEN [@ EXCEPT !.pc = "aclose_early"]
                       ELSE parse_request_line(@, r[1])]
    /\ UNCHANGED <<running, index_html, index_file, trackerVars, dnsVars>>

\* "await writer.aclose(); return" of the empty request line completes: the
\* return runs the finally clause.
AcloseEarly(c, W) ==
    /\ running = "none"
    /\ conn[c].pc = "aclose_early"
    /\ \E r \in W.io :
           conn' = [conn EXCEPT ![c] =
                       IF r = Raised
                       THEN on_exception([@ EXCEPT !.closes = Append(@, FALSE)])
                       ELSE enter_finally([@ EXCEPT !.closes = Append(@, TRUE)])]
    /\ UNCHANGED <<running, index_html, index_file, trackerVars, dnsVars>>

\* "h = await reader.readline()" completes.
ReadHeaderLine(c, W) ==
    /\ running = "none"
    /\ conn[c].pc = "readline_hdr"
    /\ \E r \in W.hdrs :
           /\ conn[c].nhdr < MaxHeaders \/ r \in {Raised, Returned(<<>>), Returned(CRLF)}
           /\ conn' = [conn EXCEPT ![c] =
                          IF r = Raised THEN on_exception(@)
                          ELSE IF r[1] = <<>> \/ r[1] = CRLF THEN headers_end(@)
                          ELSE header_line(@, r[1])]
    /\ Yields(c)
    /\ UNCHANGED <<index_html, index_file, trackerVars, dnsVars>>

\* "await reader.readexactly(content_length)" completes; what it raises is
\* passed over.
ReadBody(c, W) ==
    /\ running = "none"
    /\ conn[c].pc = "readexactly"
    /\ \E r \in W.io : conn' = [conn EXCEPT ![c].pc = "dispatch"]
    /\ Yields(c)
    /\ UNCHANGED <<index_html, index_file, trackerVars, dnsVars>>

\* The if/elif chain up to the branch's first await or tracker call.
Dispatch(c) ==
    /\ running = c
    /\ conn[c].pc = "dispatch"
    /\ LET branch == route(conn[c].method, conn[c].path)
           page == load_index_html(index_html, index_file)
       IN  CASE branch = "angle" ->
                   /\ conn' = [conn EXCEPT ![c].pc = "get_delta"]
                   /\ EnterGetDelta(c)
                   /\ UNCHANGED <<tracker, index_html>>
             [] branch = "recalibrate" ->
                   /\ conn' = [conn EXCEPT ![c].pc = "recalibrate"]
                   /\ EnterRecalibrate(c)
                   /\ UNCHANGED <<tracker, index_html>>
             [] branch = "index" ->
                   /\ conn' = [conn EXCEPT ![c] =
                                  send_response(@, 200, CT_HTML, PyStr(page.page))]
                   /\ index_html' = page.cache
                   /\ Yields(c)
                   /\ UNCHANGED trackerVars
             [] OTHER ->
                   /\ conn' = [conn EXCEPT ![c] = canned(@, branch)]
                   /\ Yields(c)
                   /\ UNCHANGED <<trackerVars, index_html>>
    /\ UNCHANGED <<index_file, dnsVars>>

\* A handler that shows zero when the sensor cannot be read.
angle_body_zero_on_failure(d) == IF d = None THEN "+0.00" ELSE format_angle(d[1])

\* body = "--.--" if d is None else f"{d:+.2f}"
angle_body(d) == IF d = None THEN "--.--" ELSE format_angle(d[1])

\* tracker.get_delta() has returned: the body, and send_response.
AngleRespond(c) ==
    /\ running = c
    /\ conn[c].pc = "get_delta"
    /\ call[c].pc = "ret"
    /\ LET d == call[c].ret
       IN  conn' = [conn EXCEPT ![c] =
                       send_response([@ EXCEPT !.d = d], 200, CT_PLAIN,
                                     PyStr(angle_body(d)))]
    /\ call' = [call EXCEPT ![c] = IdleFrame]
    /\ Yields(c)
    /\ UNCHANGED <<tracker, index_html, index_file, dnsVars>>

\* tracker.recalibrate() has returned.
RecalibrateRespond(c) ==
    /\ running = c
    /\ conn[c].pc = "recalibrate"
    /\ call[c].pc = "ret"
    /\ LET ok == call[c].ret
       IN  conn' = [conn EXCEPT ![c] =
                       send_response([@ EXCEPT !.ok = ok], 200, CT_PLAIN,
                                     PyStr(IF ok[1] THEN "OK" ELSE "ERR"))]
    /\ call' = [call EXCEPT ![c] = IdleFrame]
    /\ Yields(c)
    /\ UNCHANGED <<tracker, index_html, index_file, dnsVars>>

\* One awrite call as the history keeps it.
Written(f, kind, r) ==
    [kind |-> kind, status |-> f.status, ctype |-> f.ctype,
     reason |-> reason(f.status), length |-> Len(f.body), text |-> f.body,
     ok |-> r # Raised]

\* "await writer.awrite(hdr)" completes; then "if body and status != 204".
AwriteHdr(c, W) ==
    /\ running = "none"
    /\ conn[c].pc = "awrite_hdr"
    /\ \E r \in W.io :
           LET f == [conn[c] EXCEPT !.out = Append(@, Written(conn[c], "hdr", r))]
           IN  conn' = [conn EXCEPT ![c] =
                           IF r = Raised THEN on_exception(f)
                           ELSE IF writes_body(f.status, f.body)
                                THEN [f EXCEPT !.pc = "awrite_body"]
                                ELSE on_sent(f)]
    /\ UNCHANGED <<running, index_html, index_file, trackerVars, dnsVars>>

\* "await writer.awrite(body)" completes.
AwriteBody(c, W) ==
    /\ running = "none"
    /\ conn[c].pc = "awrite_body"
    /\ \E r \in W.io :
           LET f == [conn[c] EXCEPT !.out = Append(@, Written(conn[c], "body", r))]
           IN  conn' = [conn EXCEPT ![c] =
                           IF r = Raised THEN on_exception(f) ELSE on_sent(f)]
    /\ UNCHANGED <<running, index_html, index_file, trackerVars, dnsVars>>

\* "await writer.aclose()" of the finally clause completes; the task ends,
\* with the exception that was on its way, if any.
Aclose(c, W) ==
    /\ running = "none"
    /\ conn[c].pc = "aclose"
    /\ \E r \in W.io :
           conn' = [conn EXCEPT ![c] =
                       IF r = Raised
                       THEN on_exception([@ EXCEPT !.closes = Append(@, FALSE)])
                       ELSE [@ EXCEPT !.closes = Append(@, TRUE), !.pc = "done",
                                      !.ended = IF conn[c].pending THEN "raised"
                                                ELSE "returned"]]
    /\ UNCHANGED <<running, index_html, index_file, trackerVars, dnsVars>>

\* The steps of a connection's task on a request that has a request line and
\* no body.
HandleRequest(c, W) ==
    \/ ReadRequestLine(c, W)
    \/ ReadHeaderLine(c, W)
    \/ Dispatch(c)
    \/ TrackerStep(c, W.bus)
    \/ AngleRespond(c)
    \/ RecalibrateRespond(c)
    \/ AwriteHdr(c, W)
    \/ AwriteBody(c, W)
    \/ Aclose(c, W)

\* The steps of one connection's task.
HandleClient(c, W) ==
    \/ HandleRequest(c, W)
    \/ AcloseEarly(c, W)
    \/ ReadBody(c, W)

----------------------------------------------------------------------------
(* dns_catch_all *)

\* AP_IP = "192.168.4.1" as ip_bytes.
ip_bytes == <<192, 168, 4, 1>>

\* recvfrom's buffer size.
RecvBufSize == 512

\* How many datagrams arrive in a run.
MaxDatagrams == 2

Min(a, b) == IF a < b THEN a ELSE b

\* data[a:b] and data[a:] of Python, on a sequence indexed from 1.
Slice(data, a, b) == SubSeq(data, a + 1, Min(b, Len(data)))
SliceFrom(data, a) == SubSeq(data, a + 1, Len(data))

\* The datagrams clients send: a header (id, flags, qdcount, ancount, nscount,
\* arcount) and what follows it.
DnsHeader(tid, qd, ar) == tid \o <<1, 0>> \o qd \o <<0, 0>> \o <<0, 0>> \o ar

QuestionA == <<1, 97, 0, 0, 1, 0, 1>>
QuestionAAAA == <<1, 97, 0, 0, 28, 0, 1>>

QueryA == DnsHeader(<<18, 52>>, <<0, 1>>, <<0, 0>>) \o QuestionA
QueryAAAA == DnsHeader(<<171, 205>>, <<0, 1>>, <<0, 0>>) \o QuestionAAAA
QueryTwo == DnsHeader(<<0, 7>>, <<0, 2>>, <<0, 1>>) \o QuestionA \o QuestionAAAA
QueryBare == DnsHeader(<<255, 255>>, <<0, 0>>, <<0, 0>>)
QueryLong == DnsHeader(<<18, 52>>, <<0, 1>>, <<0, 0>>) \o [i \in 1..501 |-> 7]

Datagrams ==
    { QueryA, QueryAAAA, QueryTwo, QueryBare, QueryLong,
      <<>>, <<18>>, SubSeq(QueryA, 1, 11) }

Peers == {"p1", "p2"}

\* s.recvfrom(512) of a queued datagram: what does not fit is cut off.
recvfrom(wire) == SubSeq(wire, 1, Min(Len(wire), RecvBufSize))

\* A length check that lets short datagrams through.
dns_accepts_any(data) == ~(Len(data) = 0)

\* "if not data or len(data) < 12" is false.
dns_accepts(data) == ~(Len(data) = 0 \/ Len(data) < 12)

\* A response that states one question whatever the query's count.
dns_response_one_question(data, ip) ==
    LET header == Slice(data, 0, 2) \o <<129, 128>> \o <<0, 1>> \o <<0, 1>>
                  \o <<0, 0>> \o <<0, 0>>
        answer == <<192, 12>> \o <<0, 1>> \o <<0, 1>> \o <<0, 0, 0, 60>> \o <<0, 4>> \o ip
    IN  header \o SliceFrom(data, 12) \o answer

\* header + question + answer
dns_response(data, ip) ==
    LET tid == Slice(data, 0, 2)
        flags == <<129, 128>>
        qdcount == Slice(data, 4, 6)
        ancount == <<0, 1>>
        nscount == <<0, 0>>
        arcount == <<0, 0>>
        header == tid \o flags \o qdcount \o ancount \o nscount \o arcount
        question == SliceFrom(data, 12)
        answer == <<192, 12>> \o <<0, 1>> \o <<0, 1>> \o <<0, 0, 0, 60>> \o <<0, 4>> \o ip
    IN  header \o question \o answer

DnsIdle ==
    /\ dns = [pc |-> "start"]
    /\ inbox = <<>>
    /\ received = <<>>
    /\ sent = <<>>

\* A client's datagram, one of a set, reaches the socket.
Arrives(datagrams, peers) ==
    /\ Len(received) + Len(inbox) < MaxDatagrams
    /\ \E data \in datagrams, cli \in peers :
           inbox' = Append(inbox, [data |-> data, cli |-> cli])
    /\ UNCHANGED <<dns, received, sent, running, trackerVars, httpVars>>

DatagramArrives == Arrives(Datagrams, Peers)

\* The task's first run: socket, bind, setblocking, ip_bytes.  A bind that
\* fails ends the task.
DnsStart ==
    /\ running = "none"
    /\ dns.pc = "start"
    /\ \E bound \in BOOLEAN :
           IF bound
           THEN dns' = [pc |-> "recv"] /\ running' = "dns"
           ELSE dns' = [pc |-> "dead"] /\ running' = "none"
    /\ UNCHANGED <<inbox, received, sent, trackerVars, httpVars>>

\* await asyncio.sleep_ms(..) is over: back to the top of the loop.
DnsWake ==
    /\ running = "none"
    /\ dns.pc \in {"sleep_short", "sleep_error"}
    /\ dns' = [pc |-> "recv"]
    /\ running' = "dns"
    /\ UNCHANGED <<inbox, received, sent, trackerVars, httpVars>>

\* recvfrom raises OSError (nothing queued, or an error of the stack):
\* await asyncio.sleep_ms(2).
DnsRecvError ==
    /\ running = "dns"
    /\ dns.pc = "recv"
    /\ dns' = [pc |-> "sleep_error"]
    /\ running' = "none"
    /\ UNCHANGED <<inbox, received, sent, trackerVars, httpVars>>

\* One pass of the loop with a datagram: recvfrom, the length check, the
\* response, sendto (which may raise OSError).
DnsRecvFrom ==
    /\ running = "dns"
    /\ dns.pc = "recv"
    /\ inbox # <<>>
    /\ LET data == recvfrom(Head(inbox).data)
           cli == Head(inbox).cli
           rx == Len(received) + 1
       IN  /\ inbox' = Tail(inbox)
           /\ received' = Append(received, [data |-> data, cli |-> cli])
           /\ IF ~dns_accepts(data)
              THEN /\ dns' = [pc |-> "sleep_short"]
                   /\ running' = "none"
                   /\ sent' = sent
              ELSE \E sendto \in {Raised, Returned(Len(data))} :
                       IF sendto = Raised
                       THEN /\ dns' = [pc |-> "sleep_error"]
                            /\ running' = "none"
                            /\ sent' = sent
                       ELSE /\ dns' = [pc |-> "recv"]
                            /\ running' = "dns"
                            /\ sent' = Append(sent,
                                   [rx |-> rx, to |-> cli,
                                    payload |-> dns_response(data, ip_bytes)])
    /\ UNCHANGED <<trackerVars, httpVars>>

DnsTask == DnsStart \/ DnsWake \/ DnsRecvError \/ DnsRecvFrom

DnsInit ==
    /\ tracker = AngleTrackerInit("PITCH")
    /\ call = [t \in Callers |-> IdleFrame]
    /\ running = "none"
    /\ DnsIdle
    /\ HttpIdle({None})

DnsNext == DatagramArrives \/ DnsTask

\* The scheduler runs a task that is ready: the responder is not left
\* suspended for ever.
DnsSpec == DnsInit /\ [][DnsNext]_vars /\ WF_vars(DnsTask)

----------------------------------------------------------------------------
(* The class used directly: any sequence of recalibrate, get_delta,          *)
(* get_last_delta and set_angle_mode calls on one tracker.                   *)

ApiIdle == running = "none" /\ call["api"].pc \in {"idle", "ret"}

ApiRecalibrate ==
    ApiIdle /\ EnterRecalibrate("api") /\ UNCHANGED <<tracker, dnsVars, httpVars>>

ApiGetDelta ==
    ApiIdle /\ EnterGetDelta("api") /\ UNCHANGED <<tracker, dnsVars, httpVars>>

\* set_angle_mode(angle_mode)
ApiSetAngleMode ==
    /\ ApiIdle
    /\ \E angle_mode \in ModeInputs : tracker' = _set_axis(tracker, angle_mode)
    /\ call' = [call EXCEPT !["api"] = IdleFrame]
    /\ UNCHANGED <<running, dnsVars, httpVars>>

\* The call returns to the user, who keeps the frame to look at.
ApiReturn ==
    /\ running = "api"
    /\ call["api"].pc = "ret"
    /\ running' = "none"
    /\ UNCHANGED <<tracker, call, dnsVars, httpVars>>

TrackerInit ==
    /\ \E angle_mode \in ModeInputs : tracker = AngleTrackerInit(angle_mode)
    /\ call = [t \in Callers |-> IdleFrame]
    /\ running = "none"
    /\ DnsIdle
    /\ HttpIdle({None})

TrackerNext ==
    \/ ApiRecalibrate
    \/ ApiGetDelta
    \/ ApiSetAngleMode
    \/ ApiReturn
    \/ TrackerStep("api", get_accel_data)

TrackerSpec == TrackerInit /\ [][TrackerNext]_vars

----------------------------------------------------------------------------
(* The appliance: boot, then the tasks of main(). *)

\* The module-level code up to asyncio.run: the tracker is built and
\* recalibrate() is being called.
Boot(files) ==
    /\ tracker = AngleTrackerInit(ANGLE_MODE)
    /\ call = [t \in Callers |->
                  IF t = "main"
                  THEN [IdleFrame EXCEPT !.op = "recalibrate", !.pc = "settle",
                                         !.pre = Some(AngleTrackerInit(ANGLE_MODE))]
                  ELSE IdleFrame]
    /\ running = "main"
    /\ DnsIdle
    /\ HttpIdle(files)

\* recalibrate() has returned; asyncio.run(main()) creates the tasks and the
\* server and hands the interpreter to the scheduler.
MainStart ==
    /\ running = "main"
    /\ call["main"].pc = "ret"
    /\ call' = [call EXCEPT !["main"] = IdleFrame]
    /\ running' = "none"
    /\ UNCHANGED <<tracker, dnsVars, httpVars>>

----------------------------------------------------------------------------
(* periodic_read *)

\* A sampler that lets a failed read end it.
periodic_read_next_stops_on_failure(f) ==
    IF f.ret = None THEN [IdleFrame EXCEPT !.pc = "dead"]
    ELSE [IdleFrame EXCEPT !.pc = "sleep", !.ret = f.ret]

\* After tracker.get_delta(), whatever it returned:
\* "await asyncio.sleep_ms(READ_PERIOD_MS)".
periodic_read_next(f) == [IdleFrame EXCEPT !.pc = "sleep", !.ret = f.ret]

\* The task's first run, or the end of its sleep: tracker.get_delta().
SamplerRun ==
    /\ running = "none"
    /\ call["sampler"].pc \in {"idle", "sleep"}
    /\ EnterGetDelta("sampler")
    /\ UNCHANGED <<tracker, dnsVars, httpVars>>

\* get_delta() has returned: the task suspends for READ_PERIOD_MS.
SamplerSleep ==
    /\ running = "sampler"
    /\ call["sampler"].pc = "ret"
    /\ call' = [call EXCEPT !["sampler"] = periodic_read_next(@)]
    /\ running' = "none"
    /\ UNCHANGED <<tracker, dnsVars, httpVars>>

\* The steps of the sampler task.
PeriodicRead(bus) == SamplerRun \/ GetDeltaStep("sampler", bus) \/ SamplerSleep

----------------------------------------------------------------------------
(* The HTTP server alone: one connection after the other, any request, any   *)
(* failure of the streams.                                                   *)

Methods == {GET, POST, HEAD, M_get}

KnownPaths ==
    { P_generate_204, P_gen_204, P_hotspot_detect, P_library_success,
      P_connecttest, P_ncsi, P_root, P_index_html, P_angle, P_recalibrate }

\* A path, and the paths next to it: one character more, one less, a query
\* string, a directory in front.
Near(path) ==
    { path, Append(path, "x"), SubSeq(path, 1, Len(path) - 1),
      path \o <<"?", "a">>, <<"/", "x">> \o path }

RequestLine(method, path) ==
    method \o <<" ">> \o path \o <<" ">> \o HTTP11 \o CRLF

BusSmall == {Raised, Returned(Vec(0, 0, 1)), Returned(Vec(1, 0, 1))}

\* Every method on every known path and the paths near it; no stream fails.
RouteWorld ==
    [reqs |-> {Returned(<<>>), Returned(L_Blank), Returned(L_MethodOnly)}
              \cup {Returned(RequestLine(m, p)) :
                        m \in Methods, p \in UNION {Near(k) : k \in KnownPaths}},
     hdrs |-> {Returned(CRLF), Returned(H_ContentLength2)},
     io |-> {IoOk},
     bus |-> BusSmall]

\* A few requests, every kind of header line, and streams that fail.
FaultWorld ==
    [reqs |-> {Raised, Returned(<<>>), Returned(L_Undecodable), Returned(L_Blank),
               Returned(L_MethodOnly)}
              \cup {Returned(RequestLine(m, p)) :
                        m \in {GET, POST},
                        p \in {P_generate_204, P_angle, P_recalibrate, P_index_html,
                               P_ncsi, Append(P_angle, "x")}},
     hdrs |-> {Raised, Returned(<<>>), Returned(CRLF), Returned(H_ContentLength2),
               Returned(H_content_length_bad), Returned(H_ContentLengthNeg),
               Returned(H_Host), Returned(H_Accept), Returned(H_Undecodable),
               Returned(H_BareLF)},
     io |-> {IoOk, Raised},
     bus |-> BusSmall]

RouteInit == Boot(IndexFiles)

RouteNext ==
    \/ TrackerStep("main", BusSmall)
    \/ MainStart
    \/ Accept("c1")
    \/ HandleClient("c1", RouteWorld)

RouteSpec == RouteInit /\ [][RouteNext]_vars

HttpInit == Boot(IndexFiles)

HttpNext ==
    \/ TrackerStep("main", BusSmall)
    \/ MainStart
    \/ Accept("c1")
    \/ HandleClient("c1", FaultWorld)

HttpSpec == HttpInit /\ [][HttpNext]_vars

----------------------------------------------------------------------------
(* The parsing of the request: any request line and header lines, well formed *)
(* or not, on streams that never fail.                                        *)

ParseWorld ==
    [reqs |-> {Returned(<<>>), Returned(L_Undecodable), Returned(L_Blank),
               Returned(L_MethodOnly)}
              \cup {Returned(RequestLine(m, p)) :
                        m \in {GET, POST}, p \in {P_generate_204, P_angle, P_root,
                                       P_recalibrate}},
     hdrs |-> {Returned(<<>>), Returned(CRLF), Returned(H_ContentLength2),
               Returned(H_content_length_bad), Returned(H_ContentLengthNeg),
               Returned(H_Host), Returned(H_Accept), Returned(H_Undecodable),
               Returned(H_BareLF)},
     io |-> {IoOk},
     bus |-> BusSmall]

ParseInit == Boot(IndexFiles)

ParseNext ==
    \/ TrackerStep("main", BusSmall)
    \/ MainStart
    \/ Accept("c1")
    \/ HandleClient("c1", ParseWorld)

ParseSpec == ParseInit /\ [][ParseNext]_vars

----------------------------------------------------------------------------
(* send_response called directly, with any status and any body.              *)

Statuses == {200, 204, 404, 500, 302}

Bodies == {PyStr(""), PyStr("Success"), PyInt(0), PyInt(-12), PyNone}

SendWorld == [reqs |-> {}, hdrs |-> {}, io |-> {IoOk, Raised}, bus |-> {}]

ApiSendResponse ==
    /\ running = "none"
    /\ conn["api"].pc \in {"free", "done"}
    /\ \E status \in Statuses, ctype \in {CT_PLAIN, CT_HTML}, body \in Bodies :
           conn' = [conn EXCEPT !["api"] =
                       send_response([FreshConn EXCEPT !.block = "direct"],
                                     status, ctype, body)]
    /\ UNCHANGED <<running, index_html, index_file, trackerVars, dnsVars>>

SendInit ==
    /\ tracker = AngleTrackerInit(ANGLE_MODE)
    /\ call = [t \in Callers |-> IdleFrame]
    /\ running = "none"
    /\ DnsIdle
    /\ HttpIdle({None})

SendNext ==
    \/ ApiSendResponse
    \/ AwriteHdr("api", SendWorld)
    \/ AwriteBody("api", SendWorld)

SendSpec == SendInit /\ [][SendNext]_vars

----------------------------------------------------------------------------
(* The two loops of main(), periodic_read and dns_catch_all, with a bus and a *)
(* socket that fail at will.                                                  *)

LoopInit ==
    /\ tracker = AngleTrackerInit(ANGLE_MODE)
    /\ call = [t \in Callers |-> IdleFrame]
    /\ running = "none"
    /\ DnsIdle
    /\ HttpIdle({None})

LoopBus == {Raised, Returned(Vec(1, 0, 1))}

LoopNext ==
    \/ Arrives({QueryA, <<18>>}, {"p1"})
    \/ DnsTask
    \/ PeriodicRead(LoopBus)

LoopSpec == LoopInit /\ [][LoopNext]_vars

----------------------------------------------------------------------------
(* The appliance whole: start-up, then the sampler, the DNS responder and two *)
(* connections, as the scheduler interleaves them.                            *)

ApplianceWorld ==
    [reqs |-> {Returned(RequestLine(GET, P_angle)),
               Returned(RequestLine(POST, P_recalibrate))},
     hdrs |-> {Returned(CRLF)},
     io |-> {IoOk},
     bus |-> {Raised, Returned(Vec(1, 0, 1))}]

Init == Boot({None})

\* One task of main() takes a step.
TaskStep ==
    \/ PeriodicRead(ApplianceWorld.bus)
    \/ DnsTask
    \/ \E c \in Conns : HandleRequest(c, ApplianceWorld)

Next ==
    \/ TrackerStep("main", ApplianceWorld.bus)
    \/ MainStart
    \/ Arrives({QueryA}, {"p1"})
    \/ \E c \in Conns : Accept(c)
    \/ TaskStep

Spec == Init /\ [][Next]_vars

----------------------------------------------------------------------------
(* Claims about dns_catch_all (DnsSpec) *)

AnswerRecord == <<192, 12, 0, 1, 0, 1, 0, 0, 0, 60, 0, 4, 192, 168, 4, 1>>

\* The response the DNS contract prescribes for query q, byte by byte.
IsSpoofedResponse(p, q) ==
    /\ Len(p) = Len(q) + 16
    /\ p[1] = q[1] /\ p[2] = q[2]
    /\ p[3] = 129 /\ p[4] = 128
    /\ p[5] = q[5] /\ p[6] = q[6]
    /\ p[7] = 0 /\ p[8] = 1
    /\ p[9] = 0 /\ p[10] = 0
    /\ p[11] = 0 /\ p[12] = 0
    /\ \A i \in 13..Len(q) : p[i] = q[i]
    /\ \A k \in 1..16 : p[Len(q) + k] = AnswerRecord[k]

\* C4: the response sent for a received datagram of at least 12 bytes is
\* exactly: the query's id, flags 0x8180, the query's question count, answer
\* count 1, authority and additional counts 0, the query's bytes from offset 12
\* on, and one answer record (0xC00C, A, IN, TTL 60, length 4, the address),
\* whatever the query's record type and question count.
C4_ResponseLayout ==
    \A k \in 1..Len(sent) :
        /\ sent[k].rx \in 1..Len(received)
        /\ IsSpoofedResponse(sent[k].payload, received[sent[k].rx].data)

\* An AAAA query and a query with two questions and an additional record have
\* both been answered.
C4_Witness ==
    /\ Len(sent) = 2
    /\ received[sent[1].rx].data = QueryAAAA
    /\ received[sent[2].rx].data = QueryTwo

\* C5: a packet is sent only in response to a received datagram of at least
\* 12 bytes, and at most one packet per received datagram; a shorter datagram
\* (an empty one included) causes none.
C5_NoReplyToShortDatagram ==
    /\ \A k \in 1..Len(sent) :
           /\ sent[k].rx \in 1..Len(received)
           /\ Len(received[sent[k].rx].data) >= 12
    /\ \A j, k \in 1..Len(sent) : sent[j].rx = sent[k].rx => j = k

\* An empty datagram and an 11-byte datagram have been received and dropped.
C5_Witness ==
    /\ Len(received) = 2
    /\ received[1].data = <<>>
    /\ Len(received[2].data) = 11
    /\ dns.pc = "sleep_short"
    /\ sent = <<>>

Answered(i) == \E k \in 1..Len(sent) : sent[k].rx = i /\ sent[k].to = received[i].cli

\* C6: every received datagram of at least 12 bytes is eventually answered
\* with a response to the address it came from.
C6_EveryQueryEventuallyAnswered ==
    \A i \in 1..MaxDatagrams :
        (Len(received) >= i /\ Len(received[i].data) >= 12) ~> (Len(received) >= i /\ Answered(i))

----------------------------------------------------------------------------
(* Claims about AngleTracker (TrackerSpec) *)

AllRaised(reads) == \A i \in 1..Len(reads) : reads[i] = Raised

Returned_(t) == call[t].pc = "ret"

\* C1: a recalibrate() whose sensor read failed on all retries returns False
\* and leaves g_ref, last_delta and axis as they were when the call began,
\* whatever calls came before.
C1_FailedRecalibrateKeepsState ==
    \A t \in Callers :
        (/\ Returned_(t)
         /\ call[t].op = "recalibrate"
         /\ Len(call[t].reads) = retries
         /\ AllRaised(call[t].reads))
        => /\ call[t].ret = Some(FALSE)
           /\ tracker.g_ref = call[t].pre[1].g_ref
           /\ tracker.last_delta = call[t].pre[1].last_delta
           /\ tracker.axis = call[t].pre[1].axis

\* A failed recalibrate() on a tracker that earlier calls have moved away from
\* its initial reference, delta and axis.
C1_Witness ==
    /\ Returned_("api")
    /\ call["api"].op = "recalibrate"
    /\ call["api"].reads = <<Raised, Raised, Raised>>
    /\ call["api"].ret = Some(FALSE)
    /\ tracker.g_ref = _vec_norm(Vec(1, 0, 1))
    /\ tracker.last_delta = Deg(-4500)
    /\ tracker.angle_mode = "ROLL"

\* C2: a get_delta() whose read fails returns None and leaves last_delta and
\* g_ref unchanged; one whose read succeeds returns the signed angle from the
\* reference to the sample about the axis and stores exactly the returned value
\* in last_delta, leaving g_ref unchanged.
C2_GetDeltaResult ==
    \A t \in Callers :
        (Returned_(t) /\ call[t].op = "get_delta")
        => LET f == call[t]
               pre == f.pre[1]
               last == f.reads[Len(f.reads)]
           IN  IF last = Raised
               THEN /\ f.ret = None
                    /\ tracker.last_delta = pre.last_delta
                    /\ tracker.g_ref = pre.g_ref
               ELSE /\ f.ret # None
                    /\ \E ulps \in Rounding(pre.g_ref, last[1], pre.axis) :
                           f.ret[1] = _signed_angle_about_axis(pre.g_ref, last[1],
                                                               pre.axis, ulps)
                    /\ tracker.last_delta = f.ret[1]
                    /\ tracker.g_ref = pre.g_ref

\* A failed get_delta() on a tracker whose last_delta was 45 degrees: the value
\* is still there.
C2_Witness ==
    /\ Returned_("api")
    /\ call["api"].op = "get_delta"
    /\ call["api"].ret = None
    /\ call["api"].pre[1].last_delta = Deg(4500)
    /\ tracker.last_delta = Deg(4500)

\* C3: every sensor read of get_delta() or recalibrate() makes at most 3 bus
\* read attempts, stops at the first that succeeds and uses its sample, and
\* yields None only when all 3 attempts raised OSError.
C3_BoundedRetries ==
    \A t \in Callers :
        LET f == call[t]
            n == Len(f.reads)
        IN  /\ n <= 3
            /\ \A i \in 1..(n - 1) : f.reads[i] = Raised
            /\ f.pc \in {"got", "ret"} =>
                  /\ n >= 1
                  /\ f.g = None <=> (n = 3 /\ AllRaised(f.reads))
                  /\ f.g # None => f.reads[n] = Returned(f.g[1])
            /\ Returned_(t) =>
                  (f.g = None <=> f.ret = (IF f.op = "recalibrate" THEN Some(FALSE) ELSE None))

\* A read that failed twice and then succeeded: get_delta() returns a value.
C3_Witness ==
    /\ Returned_("api")
    /\ call["api"].op = "get_delta"
    /\ call["api"].reads = <<Raised, Raised, Returned(Vec(1, 0, 0))>>
    /\ call["api"].ret = Some(Deg(9000))

----------------------------------------------------------------------------
(* Claims about the router (RouteSpec) *)

\* The route table as the documentation states it: the status and body of
\* the response to (method, path).
RouteTable(f) ==
    IF f.method = GET /\ f.path \in {P_generate_204, P_gen_204}
    THEN [status |-> 204, body |-> ""]
    ELSE IF f.method = GET /\ f.path \in {P_hotspot_detect, P_library_success}
    THEN [status |-> 200, body |-> "Success"]
    ELSE IF f.method = GET /\ f.path = P_connecttest
    THEN [status |-> 200, body |-> "Microsoft Connect Test"]
    ELSE IF f.method = GET /\ f.path = P_ncsi
    THEN [status |-> 200, body |-> "Microsoft NCSI"]
    ELSE IF f.method = GET /\ (f.path = P_root \/ StartsWith(f.path, P_index_html))
    THEN [status |-> 200, body |-> load_index_html(index_html, index_file).page]
    ELSE IF f.method = GET /\ f.path = P_angle
    THEN [status |-> 200,
          body |-> IF f.d = None THEN "--.--" ELSE format_angle(f.d[1])]
    ELSE IF f.method \in {GET, POST} /\ f.path = P_recalibrate
    THEN [status |-> 200, body |-> IF f.ok = Some(TRUE) THEN "OK" ELSE "ERR"]
    ELSE [status |-> 404, body |-> "Not found"]

\* C7: the response a connection's handler sends for (method, path) is the one
\* the route table gives: 204 empty for GET /generate_204 and /gen_204, 200
\* "Success" for the two Apple paths, the two Microsoft texts, the portal page
\* for GET / and GET /index.html..., the angle text for GET /angle, "OK" or
\* "ERR" for GET or POST /recalibrate, and 404 "Not found" for everything
\* else; every request that is dispatched gets exactly that response.
C7_RouteTable ==
    \A c \in Conns :
        LET f == conn[c]
        IN  /\ (f.status # 0 /\ ~f.caught) =>
                /\ f.status = RouteTable(f).status
                /\ f.body = RouteTable(f).body
            /\ (f.pc = "done" /\ ~f.caught /\ Len(f.closes) = 1) =>
                /\ Len(f.out) >= 1
                /\ f.out[1].kind = "hdr"
                /\ f.out[1].status = RouteTable(f).status
                /\ f.out[1].text = RouteTable(f).body

\* A known path requested with another method has been answered 404.
C7_Witness ==
    /\ conn["c1"].pc = "done"
    /\ conn["c1"].method = POST
    /\ conn["c1"].path = P_angle
    /\ conn["c1"].out[1].status = 404
    /\ conn["c1"].out[1].text = "Not found"

----------------------------------------------------------------------------
(* Claims about send_response (SendSpec) *)

\* C8: no body is ever written for a response of status 204, whatever body
\* was passed; every body write comes right after the successful header write
\* of the same response, so at most once; and a send_response that returns
\* for another status and a non-empty body text has written the header and
\* then the body, once.
C8_BodyOnlyIfNot204 ==
    \A c \in ConnIds :
        LET f == conn[c]
        IN  /\ \A i \in 1..Len(f.out) :
                   f.out[i].kind = "body" =>
                       /\ f.out[i].status # 204
                       /\ f.out[i].text # ""
                       /\ i > 1
                       /\ f.out[i - 1].kind = "hdr"
                       /\ f.out[i - 1].ok
                       /\ f.out[i - 1].status = f.out[i].status
                       /\ f.out[i - 1].text = f.out[i].text
            /\ (f.block = "direct" /\ f.ended = "returned") =>
                   IF f.status # 204 /\ f.body # ""
                   THEN /\ Len(f.out) = 2
                        /\ f.out[2].kind = "body"
                        /\ f.out[2].ok
                   ELSE Len(f.out) = 1

\* send_response(writer, 204, ctype, "Success") has returned.
C8_Witness ==
    /\ conn["api"].ended = "returned"
    /\ conn["api"].status = 204
    /\ conn["api"].body = "Success"
    /\ Len(conn["api"].out) = 1

----------------------------------------------------------------------------
(* Claims about handle_client (HttpSpec) *)

\* C9: when a connection's task has ended, writer.aclose() has been called,
\* last of all the stream calls, and the task has ended by returning: also
\* when that close failed, when the request line was empty, when a read or a
\* write raised, and when the write of the 500 response raised.
C9_ClosedOnEveryPath ==
    \A c \in Conns :
        conn[c].pc = "done" =>
            /\ conn[c].closes # <<>>
            /\ conn[c].block = "finally"
            /\ conn[c].ended = "returned"

\* The write of the 500 response raised, and then the close raised.
C9_Witness ==
    /\ conn["c1"].pc = "done"
    /\ conn["c1"].caught
    /\ conn["c1"].out[Len(conn["c1"].out)].status = 500
    /\ ~conn["c1"].out[Len(conn["c1"].out)].ok
    /\ conn["c1"].closes = <<FALSE>>

\* The 500 response of the except clause has been attempted.
Attempted500(f) ==
    \E i \in 1..Len(f.out) :
        /\ f.out[i].kind = "hdr"
        /\ f.out[i].status = 500
        /\ f.out[i].reason = "Internal Server Error"
        /\ f.out[i].text = "Server error"

----------------------------------------------------------------------------
(* Claims about request parsing (ParseSpec) *)

\* C11: on streams that never fail, no request line and no header line,
\* malformed or undecodable, makes the handler take its except clause and
\* answer 500: every request is answered by the router.
C11_MalformedNeverFails ==
    \A c \in Conns :
        /\ ~conn[c].caught
        /\ \A i \in 1..Len(conn[c].out) : conn[c].out[i].status # 500

----------------------------------------------------------------------------
(* Claims about GET /angle (RouteSpec) *)

\* The step by which connection c leaves tracker.get_delta() for send_response.
AngleAnswered(c) == conn[c].pc = "get_delta" /\ conn'[c].pc # "get_delta"

\* C12: the handler of GET /angle, when get_delta() has returned, answers 200
\* from its try clause: "--.--" when every one of the three reads raised, and
\* then last_delta is what it was before the call; otherwise the angle from
\* the reference to the sample just read, signed, with two decimals, which is
\* also the new last_delta.  The connection ends with that one response.
C12_AngleAlways200 ==
    [][\A c \in Conns :
          /\ AngleAnswered(c) =>
                LET f == call[c]
                    pre == f.pre[1]
                    last == f.reads[Len(f.reads)]
                IN  /\ conn'[c].status = 200
                    /\ conn'[c].block = "try"
                    /\ ~conn'[c].caught
                    /\ IF last = Raised
                       THEN /\ Len(f.reads) = retries
                            /\ AllRaised(f.reads)
                            /\ conn'[c].body = "--.--"
                            /\ tracker'.last_delta = pre.last_delta
                       ELSE /\ \E ulps \in Rounding(pre.g_ref, last[1], pre.axis) :
                                   /\ tracker'.last_delta =
                                          _signed_angle_about_axis(pre.g_ref, last[1],
                                                                   pre.axis, ulps)
                                   /\ conn'[c].body =
                                          format_angle(tracker'.last_delta)
          /\ (conn'[c].pc = "done" /\ conn'[c].d # None) =>
                /\ Len(conn'[c].out) = 2
                /\ conn'[c].out[1].status = 200
                /\ conn'[c].out[2].text = conn'[c].body
      ]_vars

\* GET /angle has been answered 200 "--.--" after three failed reads, on a
\* tracker that was calibrated at start-up.
C12_Witness ==
    /\ conn["c1"].pc = "done"
    /\ conn["c1"].method = GET
    /\ conn["c1"].path = P_angle
    /\ conn["c1"].d = None
    /\ conn["c1"].out[1].status = 200
    /\ conn["c1"].out[2].text = "--.--"
    /\ tracker.g_ref = _vec_norm(Vec(1, 0, 1))

----------------------------------------------------------------------------
(* Claims about the tasks together (Spec) *)

\* A step of a task other than connection c's.
OtherTaskStep(c) ==
    \/ PeriodicRead(ApplianceWorld.bus)
    \/ DnsTask
    \/ \E o \in Conns \ {c} : HandleRequest(o, ApplianceWorld)

\* C13: while a connection's handler is in recalibrate()'s settle delay, or in
\* the backoff delay of its read, another task can take a step: the sampler,
\* whose sleep is shorter than the delay, the DNS responder or another
\* connection's handler.
C13_DelayBlocksOnlyItsTask ==
    \A c \in Conns :
        (call[c].op = "recalibrate" /\ call[c].pc \in {"settle", "backoff"})
        => ENABLED OtherTaskStep(c)

----------------------------------------------------------------------------
(* Claims about the angle (TrackerSpec) *)

\* Caller t's get_delta() has returned an angle for a sample that is the one
\* the reference was calibrated with: g_ref, before the call, was that sample
\* normalised.
SameSampleRead(t) ==
    /\ Returned_(t)
    /\ call[t].op = "get_delta"
    /\ call[t].ret # None
    /\ call[t].pre[1].g_ref = _vec_norm(call[t].g[1])

\* C14 as stated: recalibrate() on a sample and then get_delta() on the same
\* sample returns exactly 0 (0.0 or -0.0) and leaves last_delta at 0.
C14_SameSampleGivesZero ==
    \A t \in Callers :
        SameSampleRead(t) =>
            /\ call[t].ret[1].n = 0
            /\ call[t].ret[1].ulps = 0
            /\ tracker.last_delta.n = 0
            /\ tracker.last_delta.ulps = 0

\* C14, amended: recalibrate() on a sample and then get_delta() on the same
\* sample returns 0 up to the rounding of the float arithmetic, a value that
\* prints as +0.00 or -0.00, and leaves that value in last_delta; it is
\* exactly 0 for the all-zero sample and for every sample whose two components
\* across the axis are equal in magnitude or have a 0 among them.
C14_SameSampleGivesZeroRounded ==
    \A t \in Callers :
        SameSampleRead(t) =>
            /\ call[t].ret[1].n = 0
            /\ format_angle(call[t].ret[1]) \in {"+0.00", "-0.00"}
            /\ tracker.last_delta = call[t].ret[1]
            /\ ~Skewed(call[t].g[1], tracker.axis) => call[t].ret[1].ulps = 0

\* Calibrated on (0.75 g, 0, 1.75 g) and read on the same sample about Y: the
\* angle is a few ulps below 0.
C14_Witness ==
    /\ SameSampleRead("api")
    /\ call["api"].g = Some(Vec(3, 0, 7))
    /\ tracker.angle_mode = "PITCH"
    /\ call["api"].ret[1].ulps = -1
    /\ tracker.last_delta = call["api"].ret[1]

\* An angle lies in (-180, 180] degrees.
InHalfOpenRange(d) == -18000 < d.n /\ d.n <= 18000

\* C15: every value get_delta() returns, and every value of last_delta, lies
\* in (-180, 180] degrees.
C15_AngleRange ==
    /\ InHalfOpenRange(tracker.last_delta)
    /\ \A t \in Callers :
           (Returned_(t) /\ call[t].op = "get_delta" /\ call[t].ret # None)
           => InHalfOpenRange(call[t].ret[1])

----------------------------------------------------------------------------
(* Claims about the loops (LoopSpec) *)

\* The responder is suspended after a short datagram or after an OSError of
\* recvfrom or sendto.
DnsAfterEvent == dns.pc \in {"sleep_short", "sleep_error"}

\* The sampler's get_delta() has returned None: the read failed three times.
SamplerReadFailed ==
    /\ call["sampler"].pc = "ret"
    /\ call["sampler"].ret = None

\* C16: the sampler task never ends, whatever its reads do, and the responder
\* task ends only when its socket cannot be set up, before its loop.  After a
\* short datagram or a socket error the responder is suspended in a sleep from
\* which the scheduler takes it back to recvfrom; after a failed read the
\* sampler goes to its sleep, and from its sleep the scheduler takes it to the
\* next sample.
C16_LoopsNeverStop ==
    /\ call["sampler"].pc # "dead"
    /\ dns.pc = "dead" => received = <<>> /\ sent = <<>>
    /\ (DnsAfterEvent /\ running = "none") => ENABLED DnsWake
    /\ dns.pc = "recv" => ENABLED DnsRecvError
    /\ SamplerReadFailed => ENABLED SamplerSleep
    /\ (call["sampler"].pc = "sleep" /\ running = "none") => ENABLED SamplerRun

\* The responder has answered a query after a short datagram, and the sampler
\* sleeps after a read that failed.
C16_Witness ==
    /\ Len(received) = 2
    /\ ~dns_accepts(received[1].data)
    /\ \E i \in 1..Len(sent) : sent[i].rx = 2
    /\ call["sampler"].pc = "sleep"
    /\ call["sampler"].ret = None

\* Caller t is inside recalibrate() or get_delta(): between the call and the
\* assignment of g_ref or _last_delta (or the return without one).
InTracker(t) == call[t].pc \in {"settle", "read", "backoff", "got"}

\* C17: at most one task is inside a tracker operation at a time.  While task
\* t is inside one it holds the interpreter, the reference and axis are those
\* it found when it entered, and every step taken is its own: no other
\* caller's frame, no other connection and not the DNS responder moves, and
\* the tracker changes only by the step that ends t's operation.
C17_TrackerOperationsAtomic ==
    [][\A t \in Callers :
          InTracker(t) =>
              /\ running = t
              /\ \A o \in Callers \ {t} : ~InTracker(o) /\ call'[o] = call[o]
              /\ \A c \in Conns \ {t} : conn'[c] = conn[c]
              /\ dns' = dns
              /\ tracker.g_ref = call[t].pre[1].g_ref
              /\ tracker.axis = call[t].pre[1].axis
              /\ tracker' # tracker => call'[t].pc = "ret"
      ]_vars

\* Connection c1 is between two reads of its recalibrate() while connection
\* c2 waits to write the answer to its GET /angle and the sampler sleeps.
C17_Witness ==
    /\ call["c1"].op = "recalibrate"
    /\ call["c1"].pc = "backoff"
    /\ conn["c2"].pc = "awrite_hdr"
    /\ conn["c2"].path = P_angle
    /\ call["sampler"].pc = "sleep"

\* Caller t's operation ends with this step.
Completes(t) == call[t].pc = "got" /\ call'[t].pc = "ret"

\* C18: get_last_delta() is 0 after construction, and every step leaves it as
\* it was, except the end of a successful get_delta(), after which it is the
\* value that get_delta() returns, and the end of a successful recalibrate(),
\* after which it is 0.  So it is the value of the most recent successful
\* get_delta(), or 0 if none succeeded since the most recent successful
\* recalibrate() or construction; failed reads, failed calibrations and mode
\* changes leave it alone.
C18_LastDeltaHistory ==
    /\ get_last_delta(tracker) = Deg(0)
    /\ [][IF \E t \in Callers : Completes(t)
          THEN \A t \in Callers :
                   Completes(t) =>
                       get_last_delta(tracker') =
                           CASE call[t].op = "get_delta" /\ call'[t].ret # None ->
                                    call'[t].ret[1]
                             [] call[t].op = "recalibrate" /\ call'[t].ret = Some(TRUE) ->
                                    Deg(0)
                             [] OTHER -> get_last_delta(tracker)
          ELSE get_last_delta(tracker') = get_last_delta(tracker)
       ]_vars

\* After a get_delta() of -45 degrees, a change of mode and a get_delta() that
\* failed, get_last_delta() is still -45 degrees.
C18_Witness ==
    /\ Returned_("api")
    /\ call["api"].op = "get_delta"
    /\ call["api"].ret = None
    /\ tracker.angle_mode = "ROLL"
    /\ get_last_delta(tracker) = Deg(-4500)

----------------------------------------------------------------------------
(* Claims about the responses of a connection (HttpSpec) *)

\* The status lines and header blocks that reached the connection: the header
\* writes that did not raise.
Responses(f) == {i \in 1..Len(f.out) : f.out[i].kind = "hdr" /\ f.out[i].ok}

\* The request line was empty: the task called aclose() before the one of the
\* finally clause, and parse_request_line never gave it a path.
EmptyRequestLine(f) == f.path = <<>> /\ Len(f.closes) = 2

\* C19: a connection whose task has ended has had exactly one response (one
\* status line and header block) written to it, or none if its request line
\* was empty; so a fault after a response has started to be written does not
\* bring a second response.
C19_ExactlyOneResponse ==
    \A c \in Conns :
        conn[c].pc = "done" =>
            Cardinality(Responses(conn[c])) =
                IF EmptyRequestLine(conn[c]) THEN 0 ELSE 1

----------------------------------------------------------------------------
(* Claims about the yielding of the loops (LoopSpec) *)

\* This step is the end of one pass of the responder's "while True".
DnsIterationEnds ==
    /\ running = "dns"
    /\ dns.pc = "recv"
    /\ <<dns, received>>' # <<dns, received>>

\* This step is the end of one pass of the sampler's "while True".
SamplerIterationEnds == call["sampler"].pc = "ret" /\ call'["sampler"].pc # "ret"

\* C20: every pass of a task's loop ends with the task suspended, the
\* scheduler free to run another task: the responder does not go from one
\* datagram to the next without yielding, however many are queued.
C20_EveryIterationSuspends ==
    [][(DnsIterationEnds \/ SamplerIterationEnds) => running' = "none"]_vars

====
